---- MODULE Spec2Model ----
(***************************************************************************)
(* HC-SR04 ultrasonic ranging on STM32F4 (src/main.c): the echo-timing     *)
(* state machine of measure_distance_cm() and the reporting loop of main(),*)
(* together with the TIM2 input-capture channel they poll.                 *)
(*                                                                         *)
(* The program is single-threaded; the only concurrency is between the     *)
(* program's register accesses and the timer hardware (the free-running    *)
(* counter TIM2_CNT and capture events on channel 2).  One action below is *)
(* one register access (or one straight-line group of them) of the code.   *)
(***************************************************************************)
EXTENDS Integers, FiniteSets

(***************************************************************************)
(* Program constants.                                                      *)
(***************************************************************************)
TICK_MAX == 65535            \* TIM2_ARR = 0xFFFF: the counter wraps to 0 after it
ErrorValue == 65535          \* return 0xFFFF
TimeoutInit == 50000         \* timeout = 50000
RisingBound == 60000         \* if (TIM2_CNT > 60000)
FallingBound == 30000        \* if (TIM2_CNT > 30000)
SpeedNum == 343              \* (pulse_width * 343)
SpeedDen == 4000             \* / 4000
TrigDelay == 100             \* delay_us(100)
Half == TICK_MAX + 1          \* 2^16

\* uint32_t arithmetic is modulo 2^32: x reduced to its low two 16-bit halves
\* (for 0 <= x).
Wrap32(x) == ((x \div Half) % Half) * Half + (x % Half)

(***************************************************************************)
(* Bounds of the model.  Time is advanced in quanta: between two polls of  *)
(* a wait loop either one or two quanta of counter ticks elapse (or none,  *)
(* when the counter is halted).                                            *)
(***************************************************************************)
TickQuantum == 2450

TickSteps == {TickQuantum, 2 * TickQuantum}

\* A slow counter (a fast processor): one tick elapses between two polls.  Then
\* echo edges arrive only at these counter values.
SlowEchoTimes == {TrigDelay + TickQuantum, TrigDelay + 2 * TickQuantum}

\* Timer values the pure computation is exercised on (SpecCalc).
Samples == {0, 1, 40, 100, 588, 29999, 30000, 30001, 32767, 32768,
            60000, 65500, 65534, 65535}

VARIABLES
    pc,           \* position of the program
    hw,           \* "running", "slow": TIM2 counts; "halted": the counter never
                  \* advances
    cnt,          \* TIM2_CNT
    flag,         \* TIM2_SR bit 2 (CC2IF): a capture event is pending
    ccr2,         \* TIM2_CCR2: counter value latched by the last capture event
    cc2p,         \* TIM2_CCER bit 5 (CC2P): 0 = rising edge, 1 = falling edge
    timeout,      \* local of measure_distance_cm
    start_time,   \* local of measure_distance_cm
    end_time,     \* local of measure_distance_cm
    pulse_width,  \* local of measure_distance_cm
    distance_cm,  \* local of measure_distance_cm
    distance,     \* local of main: the value measure_distance_cm returned
    printed,      \* the status line main printed for the last result
    \* history of the current cycle (not program state)
    polls,        \* reads of TIM2_SR by the condition of the current wait loop
    ccrReads,     \* reads of TIM2_CCR2 in this cycle
    sawRise,      \* the rising-edge wait read the flag as pending
    sawFall,      \* the falling-edge wait read the flag as pending
    exit,         \* how the cycle ended
    computed,     \* the pulse-width computation was executed in this cycle
    \* history of the capture hardware (not program state)
    latch,        \* the capture event pending in CC2IF: the polarity it was
                  \* latched under, the program's phase at that moment, and the
                  \* counter overflows since; NoLatch when none is pending
    startWraps    \* counter overflows since the latch of the value read as
                  \* start_time

vars == <<pc, hw, cnt, flag, ccr2, cc2p, timeout, start_time, end_time,
          pulse_width, distance_cm, distance, printed,
          polls, ccrReads, sawRise, sawFall, exit, computed,
          latch, startWraps>>

hwvars == <<hw, cnt, flag, ccr2, cc2p>>
locals == <<timeout, start_time, end_time, pulse_width, distance_cm>>
history == <<polls, ccrReads, sawRise, sawFall, exit, computed>>
latches == <<latch, startWraps>>

NoLatch == [pol |-> "none", phase |-> "none", wraps |-> 0]

\* The phase of a cycle a program position belongs to.
PhaseOf(p) ==
    CASE p \in {"main_call", "main_report", "clear_flag"} -> "idle"
      [] p \in {"reset_cnt", "arm_rise"} -> "prearm"
      [] p \in {"trigger", "wait_rise", "guard_rise", "check_rise",
                "read_start", "clear_rise"} -> "rising"
      [] p = "arm_fall" -> "between"
      [] p \in {"wait_fall", "guard_fall", "check_fall", "read_end",
                "clear_fall"} -> "falling"
      [] OTHER -> "after"

(***************************************************************************)
(* Pure functions of the code.                                             *)
(***************************************************************************)

\* The counter after d more ticks: TIM2 counts 0..ARR and wraps.
Elapse(c, d) == IF hw = "halted" THEN c ELSE (c + d) % (TICK_MAX + 1)

\* The counter overflows (ARR -> 0) within the next d ticks.
Overflows(c, d) == hw # "halted" /\ c + d > TICK_MAX

\* Ticks that may elapse between two polls of a wait loop.
PollTicks == IF hw = "slow" THEN {1} ELSE TickSteps

\* d ticks elapse: the counter, and the overflow counts of the history.
Tick(d) ==
    /\ cnt' = Elapse(cnt, d)
    /\ latch' = IF Overflows(cnt, d) /\ flag
                  THEN [latch EXCEPT !.wraps = @ + 1] ELSE latch
    /\ startWraps' = IF Overflows(cnt, d) /\ ccrReads >= 1
                       THEN startWraps + 1 ELSE startWraps

\* Mutant of PulseWidth: the wraparound branch without its "+ 1".
PulseWidth_NoCarry(s, e) ==
    IF e >= s THEN Wrap32(e - s)
              ELSE Wrap32(Wrap32(TICK_MAX - s) + e)

\* Lines 150-157, in uint32_t arithmetic.
PulseWidth(s, e) ==
    IF e >= s THEN Wrap32(e - s)
              ELSE Wrap32(Wrap32(Wrap32(TICK_MAX - s) + e) + 1)

\* Mutant of DistanceCm: the division done before the multiplication.
DistanceCm_DivideFirst(pw) == Wrap32((pw \div SpeedDen) * SpeedNum)

\* Mutant of DistanceCm: the product kept in 16 bits.
DistanceCm_Narrow(pw) == ((pw * SpeedNum) % Half) \div SpeedDen

\* Line 166, in uint32_t arithmetic.
DistanceCm(pw) == Wrap32(pw * SpeedNum) \div SpeedDen

Init ==
    /\ pc = "main_call"
    /\ hw \in {"running", "halted"}
    /\ cnt = 0
    /\ flag = FALSE
    /\ ccr2 = 0
    /\ cc2p = 0
    /\ timeout = 0
    /\ start_time = 0
    /\ end_time = 0
    /\ pulse_width = 0
    /\ distance_cm = 0
    /\ distance = 0
    /\ printed = "none"
    /\ polls = 0
    /\ ccrReads = 0
    /\ sawRise = FALSE
    /\ sawFall = FALSE
    /\ exit = "none"
    /\ computed = FALSE
    /\ latch = NoLatch
    /\ startWraps = 0

(***************************************************************************)
(* The timer hardware.                                                     *)
(***************************************************************************)

\* An edge of the armed polarity arrives on the echo line (PA1 -> TIM2_CH2):
\* the counter is latched into CCR2 and CC2IF is set.  An edge of the other
\* polarity is not captured and changes nothing.  A capture that finds the
\* flag still set overwrites CCR2 (over-capture).
CaptureEvent ==
    /\ hw = "slow" => cnt \in SlowEchoTimes
    /\ ccr2' = cnt
    /\ flag' = TRUE
    /\ latch' = [pol |-> IF cc2p = 0 THEN "rising" ELSE "falling",
                 phase |-> PhaseOf(pc), wraps |-> 0]
    /\ UNCHANGED <<pc, hw, cnt, cc2p, locals, distance, printed, history,
                   startWraps>>

(***************************************************************************)
(* measure_distance_cm(), lines 96-172.                                    *)
(***************************************************************************)

\* Mutant of ReturnError: a falling-edge timeout returns its own value.
ReturnError_PerKind(how) ==
    /\ distance' = IF how \in {"fall_count", "fall_iter"}
                     THEN ErrorValue - 1 ELSE ErrorValue
    /\ exit' = how
    /\ pc' = "main_report"

\* return 0xFFFF (lines 121, 124, 140, 143), received by main at line 217.
ReturnError(how) ==
    /\ distance' = ErrorValue
    /\ exit' = how
    /\ pc' = "main_report"

\* Line 217: main calls measure_distance_cm().  The locals of the callee and
\* the result of the previous call are dead here.
Call ==
    /\ pc = "main_call"
    /\ pc' = "clear_flag"
    /\ timeout' = 0 /\ start_time' = 0 /\ end_time' = 0
    /\ pulse_width' = 0 /\ distance_cm' = 0
    /\ distance' = 0 /\ printed' = "none"
    /\ polls' = 0 /\ ccrReads' = 0 /\ sawRise' = FALSE /\ sawFall' = FALSE
    /\ exit' = "none" /\ computed' = FALSE
    /\ startWraps' = 0
    /\ UNCHANGED <<hwvars, latch>>

\* Mutant of ClearStaleFlag: line 101 left out.
ClearStaleFlag_Missing ==
    /\ pc = "clear_flag"
    /\ pc' = "reset_cnt"
    /\ UNCHANGED <<hwvars, locals, distance, printed, history, latches>>

\* Line 101: TIM2_SR &= ~(1 << 2).
ClearStaleFlag ==
    /\ pc = "clear_flag"
    /\ flag' = FALSE
    /\ pc' = "reset_cnt"
    /\ latch' = NoLatch
    /\ UNCHANGED <<hw, cnt, ccr2, cc2p, locals, distance, printed, history,
                   startWraps>>

\* Line 104: TIM2_CNT = 0.
ResetCounter ==
    /\ pc = "reset_cnt"
    /\ cnt' = 0
    /\ pc' = "arm_rise"
    /\ UNCHANGED <<hw, flag, ccr2, cc2p, locals, distance, printed, history,
                   latches>>

\* Mutant of ArmRising: line 107 left out.
ArmRising_Missing ==
    /\ pc = "arm_rise"
    /\ pc' = "trigger"
    /\ UNCHANGED <<hwvars, locals, distance, printed, history, latches>>

\* Line 107: TIM2_CCER &= ~(1 << 5).
ArmRising ==
    /\ pc = "arm_rise"
    /\ cc2p' = 0
    /\ pc' = "trigger"
    /\ UNCHANGED <<hw, cnt, flag, ccr2, locals, distance, printed, history, latches>>

\* Lines 110-115: the trigger pulse (PA0 high, delay_us(100), PA0 low), then
\* timeout = 50000.
Trigger ==
    /\ pc = "trigger"
    /\ cnt' = Elapse(cnt, TrigDelay)
    /\ timeout' = TimeoutInit
    /\ polls' = 0
    /\ pc' = "wait_rise"
    /\ UNCHANGED <<hw, flag, ccr2, cc2p, start_time, end_time, pulse_width,
                   distance_cm, distance, printed, ccrReads, sawRise, sawFall,
                   exit, computed, latches>>

\* Mutant of PollRising: "&" for "&&", so that timeout is decremented on a poll
\* that reads the flag as pending too.
PollRising_NoShortCircuit ==
    /\ pc = "wait_rise"
    /\ \E d \in PollTicks : Tick(d)
    /\ polls' = polls + 1
    /\ sawRise' = (sawRise \/ flag)
    /\ timeout' = timeout - 1
    /\ pc' = IF flag \/ timeout' = 0 THEN "check_rise" ELSE "guard_rise"
    /\ UNCHANGED <<hw, flag, ccr2, cc2p, start_time, end_time, pulse_width,
                   distance_cm, distance, printed, ccrReads, sawFall, exit,
                   computed>>

\* Mutant of PollRising: the condition without "--timeout".
PollRising_NoDecrement ==
    /\ pc = "wait_rise"
    /\ \E d \in PollTicks : Tick(d)
    /\ polls' = polls + 1
    /\ sawRise' = (sawRise \/ flag)
    /\ pc' = IF flag THEN "check_rise" ELSE "guard_rise"
    /\ UNCHANGED <<hw, flag, ccr2, cc2p, locals, distance, printed, ccrReads,
                   sawFall, exit, computed>>

\* Line 116, the loop condition !(TIM2_SR & (1 << 2)) && --timeout, evaluated
\* once; d ticks have elapsed since the previous poll.  (timeout is never 0
\* when it is decremented, so the decrement never wraps.)
PollRising ==
    /\ pc = "wait_rise"
    /\ \E d \in PollTicks : Tick(d)
    /\ polls' = polls + 1
    /\ IF flag
         THEN /\ sawRise' = TRUE
              /\ timeout' = timeout
              /\ pc' = "check_rise"
         ELSE /\ sawRise' = sawRise
              /\ timeout' = timeout - 1
              /\ pc' = IF timeout' = 0 THEN "check_rise" ELSE "guard_rise"
    /\ UNCHANGED <<hw, flag, ccr2, cc2p, start_time, end_time, pulse_width,
                   distance_cm, distance, printed, ccrReads, sawFall, exit,
                   computed>>

\* Mutant of GuardRising: the body without its return.
GuardRising_NoAbort ==
    /\ pc = "guard_rise"
    /\ pc' = "wait_rise"
    /\ UNCHANGED <<hwvars, locals, distance, printed, history, latches>>

\* Lines 119-122, the loop body: if (TIM2_CNT > 60000) return 0xFFFF.
GuardRising ==
    /\ pc = "guard_rise"
    /\ IF cnt > RisingBound
         THEN /\ ReturnError("rise_count")
              /\ UNCHANGED <<hwvars, locals, printed, polls, ccrReads, sawRise,
                             sawFall, computed, latches>>
         ELSE /\ pc' = "wait_rise"
              /\ UNCHANGED <<hwvars, locals, distance, printed, history, latches>>

\* Mutant of CheckRising: the test of line 124 left out.
CheckRising_NoTest ==
    /\ pc = "check_rise"
    /\ pc' = "read_start"
    /\ UNCHANGED <<hwvars, locals, distance, printed, history, latches>>

\* Line 124: if (timeout == 0) return 0xFFFF.
CheckRising ==
    /\ pc = "check_rise"
    /\ IF timeout = 0
         THEN /\ ReturnError("rise_iter")
              /\ UNCHANGED <<hwvars, locals, printed, polls, ccrReads, sawRise,
                             sawFall, computed, latches>>
         ELSE /\ pc' = "read_start"
              /\ UNCHANGED <<hwvars, locals, distance, printed, history, latches>>

\* Line 127: start_time = TIM2_CCR2.
ReadStart ==
    /\ pc = "read_start"
    /\ start_time' = ccr2
    /\ ccrReads' = ccrReads + 1
    /\ startWraps' = latch.wraps
    /\ pc' = "clear_rise"
    /\ UNCHANGED <<hwvars, timeout, end_time, pulse_width, distance_cm,
                   distance, printed, polls, sawRise, sawFall, exit, computed,
                   latch>>

\* Line 128: TIM2_SR &= ~(1 << 2).
ClearRiseFlag ==
    /\ pc = "clear_rise"
    /\ flag' = FALSE
    /\ pc' = "arm_fall"
    /\ latch' = NoLatch
    /\ UNCHANGED <<hw, cnt, ccr2, cc2p, locals, distance, printed, history,
                   startWraps>>

\* Lines 131-134: TIM2_CCER |= (1 << 5), then timeout = 50000.
ArmFalling ==
    /\ pc = "arm_fall"
    /\ cc2p' = 1
    /\ timeout' = TimeoutInit
    /\ polls' = 0
    /\ pc' = "wait_fall"
    /\ UNCHANGED <<hw, cnt, flag, ccr2, start_time, end_time, pulse_width,
                   distance_cm, distance, printed, ccrReads, sawRise, sawFall,
                   exit, computed, latches>>

\* Line 135, the loop condition, evaluated once.
PollFalling ==
    /\ pc = "wait_fall"
    /\ \E d \in PollTicks : Tick(d)
    /\ polls' = polls + 1
    /\ IF flag
         THEN /\ sawFall' = TRUE
              /\ timeout' = timeout
              /\ pc' = "check_fall"
         ELSE /\ sawFall' = sawFall
              /\ timeout' = timeout - 1
              /\ pc' = IF timeout' = 0 THEN "check_fall" ELSE "guard_fall"
    /\ UNCHANGED <<hw, flag, ccr2, cc2p, start_time, end_time, pulse_width,
                   distance_cm, distance, printed, ccrReads, sawRise, exit,
                   computed>>

\* Mutant of GuardFalling: the body without its return.
GuardFalling_NoAbort ==
    /\ pc = "guard_fall"
    /\ pc' = "wait_fall"
    /\ UNCHANGED <<hwvars, locals, distance, printed, history, latches>>

\* Lines 138-141, the loop body: if (TIM2_CNT > 30000) return 0xFFFF.
GuardFalling ==
    /\ pc = "guard_fall"
    /\ IF cnt > FallingBound
         THEN /\ ReturnError("fall_count")
              /\ UNCHANGED <<hwvars, locals, printed, polls, ccrReads, sawRise,
                             sawFall, computed, latches>>
         ELSE /\ pc' = "wait_fall"
              /\ UNCHANGED <<hwvars, locals, distance, printed, history, latches>>

\* Mutant of CheckFalling: the test of line 143 left out.
CheckFalling_NoTest ==
    /\ pc = "check_fall"
    /\ pc' = "read_end"
    /\ UNCHANGED <<hwvars, locals, distance, printed, history, latches>>

\* Line 143: if (timeout == 0) return 0xFFFF.
CheckFalling ==
    /\ pc = "check_fall"
    /\ IF timeout = 0
         THEN /\ ReturnError("fall_iter")
              /\ UNCHANGED <<hwvars, locals, printed, polls, ccrReads, sawRise,
                             sawFall, computed, latches>>
         ELSE /\ pc' = "read_end"
              /\ UNCHANGED <<hwvars, locals, distance, printed, history, latches>>

\* Line 146: end_time = TIM2_CCR2.
ReadEnd ==
    /\ pc = "read_end"
    /\ end_time' = ccr2
    /\ ccrReads' = ccrReads + 1
    /\ pc' = "clear_fall"
    /\ UNCHANGED <<hwvars, timeout, start_time, pulse_width, distance_cm,
                   distance, printed, polls, sawRise, sawFall, exit, computed,
                   latches>>

\* Line 147: TIM2_SR &= ~(1 << 2).
ClearFallFlag ==
    /\ pc = "clear_fall"
    /\ flag' = FALSE
    /\ pc' = "compute_pulse"
    /\ latch' = NoLatch
    /\ UNCHANGED <<hw, cnt, ccr2, cc2p, locals, distance, printed, history,
                   startWraps>>

\* Mutant of ComputePulse: the live counter used in place of end_time.
ComputePulse_FromCounter ==
    /\ pc = "compute_pulse"
    /\ pulse_width' = PulseWidth(start_time, cnt)
    /\ computed' = TRUE
    /\ pc' = "convert"
    /\ UNCHANGED <<hwvars, timeout, start_time, end_time, distance_cm,
                   distance, printed, polls, ccrReads, sawRise, sawFall, exit,
                   latches>>

\* Lines 150-157: the pulse width, with the wraparound branch.
ComputePulse ==
    /\ pc = "compute_pulse"
    /\ pulse_width' = PulseWidth(start_time, end_time)
    /\ computed' = TRUE
    /\ pc' = "convert"
    /\ UNCHANGED <<hwvars, timeout, start_time, end_time, distance_cm,
                   distance, printed, polls, ccrReads, sawRise, sawFall, exit,
                   latches>>

\* Line 166: distance_cm = (pulse_width * 343) / 4000.
Convert ==
    /\ pc = "convert"
    /\ distance_cm' = DistanceCm(pulse_width)
    /\ pc' = "return"
    /\ UNCHANGED <<hwvars, timeout, start_time, end_time, pulse_width,
                   distance, printed, history, latches>>

\* Mutant of ReturnDistance: pulse_width returned in place of distance_cm.
ReturnDistance_ReturnsPulse ==
    /\ pc = "return"
    /\ distance' = pulse_width
    /\ exit' = "distance"
    /\ pc' = "main_report"
    /\ UNCHANGED <<hwvars, locals, printed, polls, ccrReads, sawRise, sawFall,
                   computed, latches>>

\* Line 171: return distance_cm, received by main at line 217.
ReturnDistance ==
    /\ pc = "return"
    /\ distance' = distance_cm
    /\ exit' = "distance"
    /\ pc' = "main_report"
    /\ UNCHANGED <<hwvars, locals, printed, polls, ccrReads, sawRise, sawFall,
                   computed, latches>>

(***************************************************************************)
(* main(), lines 216-226: the reporting loop.                              *)
(***************************************************************************)

\* Mutant of Report: the test of line 219 left out.
Report_NoErrorCheck ==
    /\ pc = "main_report"
    /\ printed' = "distance"
    /\ pc' = "main_call"
    /\ UNCHANGED <<hwvars, locals, distance, history, latches>>

\* Lines 219-225: print the status line, delay_ms(100), loop.
Report ==
    /\ pc = "main_report"
    /\ printed' = IF distance = ErrorValue THEN "error" ELSE "distance"
    /\ pc' = "main_call"
    /\ UNCHANGED <<hwvars, locals, distance, history, latches>>

Step ==
    \/ Call \/ ClearStaleFlag \/ ResetCounter \/ ArmRising \/ Trigger
    \/ PollRising \/ GuardRising \/ CheckRising
    \/ ReadStart \/ ClearRiseFlag \/ ArmFalling
    \/ PollFalling \/ GuardFalling \/ CheckFalling
    \/ ReadEnd \/ ClearFallFlag
    \/ ComputePulse \/ Convert \/ ReturnDistance
    \/ Report

Next == Step \/ CaptureEvent

Spec == Init /\ [][Next]_vars

\* The program always takes its next step; the hardware owes nothing.
FairSpec == Spec /\ WF_vars(Step)

(***************************************************************************)
(* The pure computation of lines 150-171 on chosen capture values.         *)
(***************************************************************************)
InitCalc ==
    /\ pc = "compute_pulse"
    /\ hw = "running"
    /\ \/ start_time = 0 /\ end_time \in 0..TICK_MAX
       \/ start_time \in Samples /\ end_time \in Samples
    /\ cnt = 0 /\ flag = FALSE /\ ccr2 = end_time /\ cc2p = 1
    /\ timeout = TimeoutInit
    /\ pulse_width = 0 /\ distance_cm = 0 /\ distance = 0
    /\ printed = "none"
    /\ polls = 1 /\ ccrReads = 2 /\ sawRise = TRUE /\ sawFall = TRUE
    /\ exit = "none" /\ computed = FALSE
    /\ latch = NoLatch /\ startWraps = 0

NextCalc == ComputePulse \/ Convert \/ ReturnDistance

SpecCalc == InitCalc /\ [][NextCalc]_vars

(***************************************************************************)
(* The computation and the report of main on chosen capture values, and    *)
(* the report of a cycle that timed out.                                   *)
(***************************************************************************)
InitTimedOut ==
    /\ pc = "main_report"
    /\ hw = "halted"
    /\ cnt = 0 /\ flag = FALSE /\ ccr2 = 0 /\ cc2p = 0
    /\ timeout = 0 /\ start_time = 0 /\ end_time = 0
    /\ pulse_width = 0 /\ distance_cm = 0 /\ distance = ErrorValue
    /\ printed = "none"
    /\ polls = TimeoutInit /\ ccrReads = 0 /\ sawRise = FALSE
    /\ sawFall = FALSE /\ exit = "rise_iter" /\ computed = FALSE
    /\ latch = NoLatch /\ startWraps = 0

InitReport == InitCalc \/ InitTimedOut

NextReport == ComputePulse \/ Convert \/ ReturnDistance \/ Report

SpecReport == InitReport /\ [][NextReport]_vars

(***************************************************************************)
(* The same program on a counter that advances one tick per poll.          *)
(***************************************************************************)
InitSlow ==
    /\ pc = "main_call"
    /\ hw = "slow"
    /\ cnt = 0 /\ flag = FALSE /\ ccr2 = 0 /\ cc2p = 0
    /\ timeout = 0 /\ start_time = 0 /\ end_time = 0
    /\ pulse_width = 0 /\ distance_cm = 0 /\ distance = 0
    /\ printed = "none"
    /\ polls = 0 /\ ccrReads = 0 /\ sawRise = FALSE /\ sawFall = FALSE
    /\ exit = "none" /\ computed = FALSE
    /\ latch = NoLatch /\ startWraps = 0

SpecSlow == InitSlow /\ [][Next]_vars

(***************************************************************************)
(* Properties.                                                             *)
(***************************************************************************)
RiseTimeouts == {"rise_count", "rise_iter"}
FallTimeouts == {"fall_count", "fall_iter"}
Returned == pc = "main_report"

\* C1: a cycle whose rising-edge wait never read the capture flag as pending
\* never reads TIM2_CCR2 and returns the error value 0xFFFF (not a distance,
\* in particular not 0), as a timeout of the rising-edge wait.
C1_NoResponse ==
    ~sawRise =>
        /\ ccrReads = 0
        /\ ~computed
        /\ Returned => (distance = ErrorValue /\ exit \in RiseTimeouts)

\* A cycle has returned after its rising-edge wait ran out with no capture.
C1_Witness ==
    Returned /\ ~sawRise /\ ~flag /\ exit = "rise_count" /\ cnt > RisingBound

\* C2: a cycle that read the rising capture but never read the flag as pending
\* during the falling-edge wait returns the error value, and the pulse-width
\* and distance computation is not executed.
C2_OutOfRange ==
    (sawRise /\ ~sawFall) =>
        /\ ~computed
        /\ ccrReads <= 1
        /\ Returned => (distance = ErrorValue /\ exit \in FallTimeouts)

\* A cycle has returned after a rising capture and a falling-edge timeout.
C2_Witness ==
    Returned /\ sawRise /\ ~sawFall /\ ~flag /\ exit = "fall_count"
    /\ ccrReads = 1

\* C3 as claimed: the value returned by a falling-edge timeout differs from the
\* value 0xFFFF returned by every rising-edge timeout.
C3_Distinguishable ==
    (Returned /\ exit \in FallTimeouts) => distance # ErrorValue

\* C3 as amended: both kinds of timeout return the same value 0xFFFF, and main
\* prints the same status line for both, so the caller cannot tell them apart.
C3_SameErrorValue ==
    /\ (Returned /\ exit \in RiseTimeouts \cup FallTimeouts)
           => distance = ErrorValue
    /\ (pc = "main_call" /\ exit \in RiseTimeouts \cup FallTimeouts)
           => printed = "error"

\* A falling-edge timeout has been reported by main.
C3_Witness ==
    pc = "main_call" /\ exit = "fall_count" /\ printed = "error"
    /\ distance = ErrorValue

\* C4 as claimed: each wait performs fewer than 50000 polls of the flag.
C4_FewerThan50000 == polls < TimeoutInit

\* C4 as amended: each wait performs at most 50000 polls of the flag (fewer
\* than 50000 reads of the counter), and every call of measure_distance_cm()
\* returns, whatever the hardware does.
C4_Terminates ==
    /\ [](polls <= TimeoutInit)
    /\ [](pc \in {"guard_rise", "guard_fall"} => polls < TimeoutInit)
    /\ (pc = "clear_flag") ~> Returned

\* With the counter halted and no capture, the rising-edge wait has ended after
\* exactly 50000 polls.
C4_Witness ==
    Returned /\ hw = "halted" /\ exit = "rise_iter" /\ polls = TimeoutInit
    /\ cnt = 0

\* C5: when the body of the rising-edge wait reads a counter above 60000, or
\* the body of the falling-edge wait one above 30000, that step returns the
\* error value, without another poll.
C5_CounterGuard ==
    [][ ( /\ \/ pc = "guard_rise" /\ cnt > RisingBound
             \/ pc = "guard_fall" /\ cnt > FallingBound
          /\ pc' # pc )
        => ( /\ pc' = "main_report"
             /\ distance' = ErrorValue
             /\ polls' = polls
             /\ ccrReads' = ccrReads ) ]_vars

\* The falling-edge wait was ended by its counter guard, with no capture
\* pending.
C5_Witness ==
    Returned /\ exit = "fall_count" /\ ~flag /\ cnt > FallingBound
    /\ distance = ErrorValue

\* C6: the pulse width is end - start when end >= start, and
\* (TICK_MAX - start) + end + 1 otherwise; it equals (end - start) mod 65536
\* and lies in 0..TICK_MAX.
C6_PulseWidth ==
    computed =>
        /\ end_time >= start_time => pulse_width = end_time - start_time
        /\ end_time < start_time
              => pulse_width = (TICK_MAX - start_time) + end_time + 1
        /\ pulse_width = (end_time - start_time) % 65536
        /\ pulse_width \in 0..TICK_MAX

\* The wraparound example: start = 65500, end = 40, pulse width 76.
C6_Witness ==
    computed /\ start_time = 65500 /\ end_time = 40 /\ pulse_width = 76

C8_HalfSpeedOfSound ==
    (Returned /\ exit = "distance")
        => distance = (pulse_width * 343) \div 20000

\* C9: the distance is monotonically non-decreasing in the pulse width: it is
\* at least the distance of every smaller pulse width and at most that of every
\* larger one (compared with the neighbouring widths and the sample widths).
C9_Monotone ==
    (Returned /\ exit = "distance") =>
        \A q \in (Samples \cup {pulse_width - 1, pulse_width + 1})
                     \cap (0..TICK_MAX) :
            /\ q <= pulse_width => DistanceCm(q) <= distance
            /\ q >= pulse_width => DistanceCm(q) >= distance

\* The largest pulse width gives the largest distance, 5619 cm.
C9_Witness ==
    Returned /\ exit = "distance" /\ pulse_width = TICK_MAX /\ distance = 5619

\* C10 as claimed: the counter guard of the falling-edge wait aborts only when
\* more than 30000 ticks have elapsed since the rising capture.
C10_EchoDurationBound ==
    (Returned /\ exit = "fall_count" /\ start_time <= RisingBound)
        => (cnt - start_time) % 65536 > FallingBound

\* C11 as claimed: while the counter keeps advancing, a wait that ends in
\* timeout without a capture ends only after the counter has exceeded the
\* wait's bound; the iteration guard never ends a wait within the bound.
C11_CounterGuardAuthoritative ==
    (Returned /\ hw # "halted") =>
        /\ exit = "rise_iter" => cnt > RisingBound
        /\ exit = "fall_iter" => cnt > FallingBound
        /\ (exit = "rise_count" /\ ~sawRise) => cnt > RisingBound
        /\ (exit = "fall_count" /\ ~sawFall) => cnt > FallingBound

\* C12: whatever the previous cycle left behind, before the first poll of the
\* rising-edge wait the polarity is Rising, the counter has counted from 0
\* since its reset, and the stale flag has been cleared: a flag that is pending
\* was raised after the clear of this cycle.
C12_Rearmed ==
    (pc = "wait_rise" /\ polls = 0) =>
        /\ cc2p = 0
        /\ cnt = Elapse(0, TrigDelay)
        /\ timeout = TimeoutInit
        /\ IF flag THEN latch.phase \in {"prearm", "rising"}
                   ELSE latch = NoLatch

\* A later cycle (CCR2 and CNT were used before) is about to poll, re-armed.
C12_Witness ==
    pc = "wait_rise" /\ polls = 0 /\ ~flag /\ cc2p = 0 /\ ccr2 > RisingBound
    /\ cnt = TrigDelay

\* C13: the distance a successful cycle returns is a function of the start and
\* end values it read, and of nothing else (not of the counter, of CCR2, of
\* the timeouts or of earlier cycles): two cycles that read the same values
\* return the same distance.
C13_Idempotent ==
    (Returned /\ exit = "distance")
        => distance = DistanceCm(PulseWidth(start_time, end_time))

\* A successful cycle has returned while the counter and CCR2 have moved on
\* from the values it read.
C13_Witness ==
    Returned /\ exit = "distance" /\ distance > 0 /\ cnt # end_time
    /\ ccr2 # end_time

\* C14: main reports every result (the error line for a timeout, the distance
\* line for a distance, never a distance line for an error) and after every
\* result starts another cycle.
C14_LoopContinues ==
    /\ []((pc = "main_call" /\ exit \in RiseTimeouts \cup FallTimeouts)
             => printed = "error")
    /\ []((pc = "main_call" /\ exit = "distance") => printed = "distance")
    /\ Returned ~> (pc = "clear_flag")

\* Under a sustained fault (counter halted, no echo) an error has been
\* reported and the next cycle is about to start.
C14_Witness ==
    pc = "main_call" /\ hw = "halted" /\ exit = "rise_iter"
    /\ printed = "error" /\ ccr2 = 0

\* C15: the polarity is Rising during the rising-edge wait and Falling during
\* the falling-edge wait; after arming it is changed only by line 131, between
\* the waits, once the start value has been read and its flag cleared.
C15_Polarity ==
    /\ [](PhaseOf(pc) \in {"rising", "between"} => cc2p = 0)
    /\ [](PhaseOf(pc) = "falling" => cc2p = 1)
    /\ [][ cc2p' # cc2p =>
             \/ pc = "arm_rise"
             \/ /\ pc = "arm_fall"
                /\ ccrReads = 1
                /\ sawRise
                /\ latch.phase \in {"none", "between"} ]_vars

\* The falling-edge wait is polling under Falling polarity.
C15_Witness ==
    pc = "guard_fall" /\ cc2p = 1 /\ ccrReads = 1 /\ polls >= 2

\* C16: after either wait loop the iteration counter is 0 exactly when the flag
\* was not read as pending; a wait that read the flag as pending never reports
\* its timeout.
C16_FlagBeatsTimeout ==
    /\ pc = "check_rise" => (timeout = 0 <=> ~sawRise)
    /\ pc = "check_fall" => (timeout = 0 <=> ~sawFall)
    /\ (Returned /\ sawRise) => exit \notin RiseTimeouts
    /\ (Returned /\ sawFall) => exit = "distance"

\* The flag was read as pending on the 50000th poll, the last one the
\* iteration guard allows.
C16_Witness ==
    pc = "check_rise" /\ sawRise /\ polls = TimeoutInit /\ timeout = 1

\* C17: a distance is never the error value 0xFFFF (it is at most 5619), so
\* main prints the error line exactly for the cycles that timed out.
C17_NoCollision ==
    /\ (Returned /\ exit = "distance")
           => (distance # ErrorValue /\ distance <= 5619)
    /\ (pc = "main_call" /\ exit # "none")
           => (printed = "error" <=> exit \in RiseTimeouts \cup FallTimeouts)
    /\ (pc = "main_call" /\ exit # "none")
           => (printed = "distance" <=> exit = "distance")

\* The largest distance has been printed as a distance.
C17_Witness ==
    pc = "main_call" /\ exit = "distance" /\ distance = 5619
    /\ printed = "distance" /\ pulse_width = TICK_MAX

\* C18 as claimed (every time step of the model is below 5000 ticks): the
\* counter never overflows between the latch of the value read as start_time
\* and the latch of the value read as end_time.
C18_NoWrap ==
    [][ (pc = "read_end" /\ pc' = "clear_fall")
          => startWraps = latch.wraps ]_vars

\* C18 as amended: the counter overflows at most once between the latch of the
\* value read as start_time and the latch of the value read as end_time.
C18_AtMostOneWrap ==
    [][ (pc = "read_end" /\ pc' = "clear_fall")
          => (startWraps - latch.wraps) \in {0, 1} ]_vars

\* The counter overflowed between the two latches, and the wraparound branch
\* was taken.
C18_Witness ==
    computed /\ end_time < start_time /\ startWraps = 1
    /\ pulse_width = (TICK_MAX - start_time) + end_time + 1

\* C19 as claimed: the value read as start_time was latched by a rising edge,
\* under the Rising polarity of this cycle; a value latched under the Falling
\* polarity the previous cycle left armed is never read as start_time.
C19_FreshStart ==
    [][ (pc = "read_start" /\ pc' = "clear_rise") => latch.pol = "rising" ]_vars

\* C20 as claimed: the value read as end_time was latched under Falling
\* polarity, after the switch to Falling.
C20_FallingEnd ==
    [][ (pc = "read_end" /\ pc' = "clear_fall")
          => (latch.pol = "falling" /\ latch.phase = "falling") ]_vars

====
